---- MODULE Spec2Model ----
(***************************************************************************)
(* The merge queue of bors-rs (bors/src/queue.rs): MergeQueue::process_queue *)
(* and the three steps it is made of (process_head, land_pr,               *)
(* process_next_head), run as one atomic tick over the repository's map of *)
(* pull requests, interleaved with the events that change that map between *)
(* ticks.  Every call to a collaborator (git worktree, forge client,       *)
(* project board) has the outcomes its call site distinguishes.            *)
(***************************************************************************)
EXTENDS Integers, Sequences, FiniteSets, TLC

\* ---------------------------------------------------------------- bounds
\* Pull request numbers are 1..MaxPR.
MaxPR == 2
\* The clock runs over 0..MaxTime.
MaxTime == 1
\* config.timeout(), in clock units.
Timeout == 1

PR == 1..MaxPR
\* Option<u64>::None for MergeQueue.head
None == 0
\* config.checks(): the required checks, in the order the configuration lists them
Checks == <<"ci", "lint">>
CheckSet == {Checks[i] : i \in 1..Len(Checks)}
NoCheck == "-"
\* config.labels().high_priority()
HighPriority == "high_priority"
\* PullRequestState.head_repo: None, or the fork the PR comes from
NoRepo == "none"
ForkRepo == "fork"

VARIABLES
    pulls,            \* HashMap<u64, PullRequestState>: a function on the numbers present
    head,             \* MergeQueue.head
    now,              \* the clock tests_started_at.elapsed() reads
    maintainer_mode,  \* config.maintainer_mode()
    project_board,    \* whether a project board is configured (Option<&ProjectBoard>)
    last              \* the Result of the tick that has just run and the calls it made

vars == <<pulls, head, now, maintainer_mode, project_board, last>>

\* ---------------------------------------------------------------- Status
InReview == [tag |-> "InReview"]
Queued == [tag |-> "Queued"]
\* Status::testing(merge_oid): a fresh Testing status, started now, no results yet
testing(merge_oid) ==
    [tag |-> "Testing", merge_oid |-> merge_oid, tests_started_at |-> now,
     test_results |-> [c \in {} |-> TRUE]]

is_testing(status) == status.tag = "Testing"
is_queued(status) == status.tag = "Queued"

has_label(pull, label) == label \in pull.labels

\* Instant::elapsed()
elapsed(started_at) == now - started_at

\* ---------------------------------------------------------------- QueueEntry
QueueEntry(pull) == [number |-> pull.number, priority |-> has_label(pull, HighPriority)]

\* (a.cmp(&b) on bool, without Reverse: false sorts before true)
CmpReversePriorityWrong(a, b) ==
    IF a = b THEN "Equal" ELSE IF a THEN "Greater" ELSE "Less"

\* Reverse(a).cmp(&Reverse(b)) on bool: true sorts before false
CmpReversePriority(a, b) ==
    IF a = b THEN "Equal" ELSE IF a THEN "Less" ELSE "Greater"

\* (an order that puts the entry the queue should take last first)
QueueEntryCmpReversed(a, b) ==
    LET ord == CmpReversePriority(b.priority, a.priority) IN
    IF ord = "Equal"
    THEN IF b.number < a.number THEN "Less"
         ELSE IF a.number = b.number THEN "Equal" ELSE "Greater"
    ELSE ord

\* impl Ord for QueueEntry
QueueEntryCmp(a, b) ==
    LET ord == CmpReversePriority(a.priority, b.priority) IN
    IF ord = "Equal"
    THEN IF a.number < b.number THEN "Less"
         ELSE IF a.number = b.number THEN "Equal" ELSE "Greater"
    ELSE ord

\* queue.sort_unstable_by_key(QueueEntry): the numbers in S in ascending key order
RECURSIVE SortByKey(_, _)
SortByKey(ps, S) ==
    IF S = {} THEN <<>>
    ELSE LET least == CHOOSE n \in S : \A k \in S :
                          QueueEntryCmp(QueueEntry(ps[n]), QueueEntry(ps[k])) # "Greater"
         IN <<least>> \o SortByKey(ps, S \ {least})

\* ---------------------------------------------------------------- a tick's working state
\* m = [pulls, head, trace]: the map and the head as the tick has changed them so
\* far, and the collaborator calls it has made, in order.
\* One call: the collaborator's operation, the pull request it is for, its state or
\* branch argument, its url / description / check name, its commit, and whether it
\* returned Ok.
Eff(call, pr, arg, detail, oid, ok) ==
    [call |-> call, pr |-> pr, arg |-> arg, detail |-> detail, oid |-> oid, ok |-> ok]
Log(m, e) == [m EXCEPT !.trace = Append(@, e)]

\* Result<()>: Ok(()) or Err, with the state the call leaves behind
Ok(m) == [m |-> m, res |-> "Ok"]
Err(m) == [m |-> m, res |-> "Err"]

\* `first?; rest`: rest runs only on the outcomes where first returned Ok
Then(first, rest(_)) == UNION {IF r.res = "Ok" THEN rest(r.m) ELSE {r} : r \in first}

\* A collaborator call that changes nothing here: it returns Ok or Err.
Call(m, call, pr, arg, detail, oid) ==
    {Ok(Log(m, Eff(call, pr, arg, detail, oid, TRUE))),
     Err(Log(m, Eff(call, pr, arg, detail, oid, FALSE)))}

\* github.repos().create_status(.., state, target_url / description, context "bors")
create_status(m, pr, state, detail) == Call(m, "create_status", pr, state, detail, None)
\* github.issues().create_comment(.., number, body)
create_comment(m, pr, body, detail) == Call(m, "create_comment", pr, body, detail, None)
\* github.git().update_ref(.., "heads/<base_ref_name>", merge_oid, false)
update_ref(m, pr, merge_oid) == Call(m, "update_ref", pr, "heads/base", "", merge_oid)
\* board.delete_card(github, pull)
delete_card(m, pr) == Call(m, "delete_card", pr, "", "", None)
\* repo.push_branch("auto")
push_branch(m, pr) == Call(m, "push_branch", pr, "auto", "", None)
\* repo.push_to_remote(head_repo, head_ref_name, head_ref_oid, merge_oid)
push_to_remote(m, pr, merge_oid) == Call(m, "push_to_remote", pr, "", "", merge_oid)

\* The commit fetch_and_rebase builds for a pull request.
MergeOid(pr) == pr
\* repo.fetch_and_rebase(base_ref_name, head_ref_oid, "auto", number, squash):
\* Ok(Some(merge_oid)), Ok(None) on a conflict, or Err.  oid = None is the conflict.
fetch_and_rebase(m, pr) ==
    {[m |-> Log(m, Eff("fetch_and_rebase", pr, "auto", "merged", MergeOid(pr), TRUE)),
      res |-> "Ok", oid |-> MergeOid(pr)],
     [m |-> Log(m, Eff("fetch_and_rebase", pr, "auto", "conflict", None, TRUE)),
      res |-> "Ok", oid |-> None],
     [m |-> Log(m, Eff("fetch_and_rebase", pr, "auto", "", None, FALSE)),
      res |-> "Err", oid |-> None]}

\* pull.update_status(status, config, github, project_board): the pull request takes
\* the status; on an error the status is as it was.
update_status(m, pr, status) ==
    {Ok(Log([m EXCEPT !.pulls[pr].status = status],
            Eff("update_status", pr, status.tag, "", None, TRUE))),
     Err(Log(m, Eff("update_status", pr, status.tag, "", None, FALSE)))}

\* pulls.remove(&head)
remove(ps, pr) == [n \in DOMAIN ps \ {pr} |-> ps[n]]

\* ---------------------------------------------------------------- land_pr
\* "Finally 'merge' the PR by updating the 'base_ref' with `merge_oid`", remove the
\* project board's card, "Actually remove the PR"
Merge(m, pr, merge_oid) ==
    Then(update_ref(m, pr, merge_oid), LAMBDA m1 :
    Then(IF project_board THEN delete_card(m1, pr) ELSE {Ok(m1)}, LAMBDA m2 :
    {Ok([m2 EXCEPT !.pulls = remove(@, pr)])}))

\* (a refused in-place push that goes on to the merge)
HaltMergeThenMerge(m, pr) ==
    Then(update_status(m, pr, InReview), LAMBDA m1 :
    Then(create_comment(m1, pr, "failed to update PR in-place", ""), LAMBDA m2 :
    Merge(m2, pr, m.pulls[pr].status.merge_oid)))

\* "unable to update pr in-place": back to InReview, comment, return Ok(())
HaltMerge(m, pr) ==
    Then(update_status(m, pr, InReview), LAMBDA m1 :
    Then(create_comment(m1, pr, "failed to update PR in-place", ""), LAMBDA m2 :
    {Ok(m2)}))

\* (an in-place push that is attempted whatever config.maintainer_mode() says)
land_prAnyMode(m) ==
    LET pr == m.head
        m0 == [m EXCEPT !.head = None]
        pull == m.pulls[pr]
        merge_oid == pull.status.merge_oid
    IN  IF pull.head_repo # NoRepo
        THEN UNION {IF r.res = "Err" THEN HaltMerge(r.m, pr) ELSE Merge(r.m, pr, merge_oid)
                    : r \in push_to_remote(m0, pr, merge_oid)}
        ELSE Merge(m0, pr, merge_oid)

land_pr(m) ==
    LET pr == m.head
        m0 == [m EXCEPT !.head = None]        \* self.head.take()
        pull == m.pulls[pr]
        merge_oid == pull.status.merge_oid
    IN  IF pull.head_repo # NoRepo /\ maintainer_mode
        THEN UNION {IF r.res = "Err" THEN HaltMerge(r.m, pr) ELSE Merge(r.m, pr, merge_oid)
                    : r \in push_to_remote(m0, pr, merge_oid)}
        ELSE Merge(m0, pr, merge_oid)

\* ---------------------------------------------------------------- process_head
\* (a search that reports the last configured check with a failed result)
RECURSIVE FindFailureLast(_, _)
FindFailureLast(test_results, i) ==
    IF i > Len(Checks) THEN NoCheck
    ELSE LET later == FindFailureLast(test_results, i + 1) IN
         IF later # NoCheck THEN later
         ELSE IF Checks[i] \in DOMAIN test_results /\ ~test_results[Checks[i]] THEN Checks[i]
         ELSE NoCheck

\* config.checks().filter_map(|name| test_results.get(name)).find(|r| !r.passed)
RECURSIVE FindFailure(_, _)
FindFailure(test_results, i) ==
    IF i > Len(Checks) THEN NoCheck
    ELSE IF Checks[i] \in DOMAIN test_results /\ ~test_results[Checks[i]] THEN Checks[i]
    ELSE FindFailure(test_results, i + 1)

\* (unwrap_or(true): a check with no result counts as passed)
AllPassedMissingOk(test_results) ==
    \A i \in 1..Len(Checks) :
        Checks[i] \in DOMAIN test_results => test_results[Checks[i]]

\* (a success test that wants every recorded result to have passed, configured or not)
AllPassedEveryResult(test_results) ==
    /\ \A i \in 1..Len(Checks) :
          IF Checks[i] \in DOMAIN test_results THEN test_results[Checks[i]] ELSE FALSE
    /\ \A c \in DOMAIN test_results : test_results[c]

\* config.checks().map(|name| test_results.get(name))
\*     .all(|result| result.map(|r| r.passed).unwrap_or(false))
AllPassed(test_results) ==
    \A i \in 1..Len(Checks) :
        IF Checks[i] \in DOMAIN test_results THEN test_results[Checks[i]] ELSE FALSE

\* (a failure path that leaves the head recorded)
FailureKeepHead(m, name) ==
    LET pr == m.head IN
    Then(update_status(m, pr, InReview), LAMBDA m1 :
    Then(create_status(m1, pr, "Failure", name), LAMBDA m2 :
    create_comment(m2, pr, "Test Failed", name)))

\* "Check if there were any test failures from configured checks"
Failure(m, name) ==
    LET pr == m.head IN
    Then(update_status(m, pr, InReview), LAMBDA m1 :
    Then(create_status([m1 EXCEPT !.head = None], pr, "Failure", name), LAMBDA m2 :
    create_comment(m2, pr, "Test Failed", name)))

\* (a success path that lands before it posts the Success status)
SuccessLandFirst(m) ==
    Then(land_pr(m), LAMBDA m1 : create_status(m1, m.head, "Success", ""))

\* "Check if all tests have completed and passed"
Success(m) ==
    Then(create_status(m, m.head, "Success", ""), LAMBDA m1 : land_pr(m1))

\* (a timeout that puts the pull request back in the queue)
TimedOutRequeue(m) ==
    LET pr == m.head IN
    Then(update_status(m, pr, Queued), LAMBDA m1 :
    Then(create_status([m1 EXCEPT !.head = None], pr, "Failure", "Timed-out"), LAMBDA m2 :
    create_comment(m2, pr, "Tests timed-out", "")))

\* (a timeout that reports but leaves the pull request Testing)
TimedOutKeepTesting(m) ==
    LET pr == m.head IN
    Then(create_status([m EXCEPT !.head = None], pr, "Failure", "Timed-out"), LAMBDA m2 :
    create_comment(m2, pr, "Tests timed-out", ""))

\* "Check if the test has timed-out"
TimedOut(m) ==
    LET pr == m.head IN
    Then(update_status(m, pr, InReview), LAMBDA m1 :
    Then(create_status([m1 EXCEPT !.head = None], pr, "Failure", "Timed-out"), LAMBDA m2 :
    create_comment(m2, pr, "Tests timed-out", "")))

\* (a timeout that needs more than config.timeout() to have passed)
TimeoutElapsedStrict(started_at) == elapsed(started_at) > Timeout

\* (a timeout test with its operands exchanged)
TimeoutElapsedSwapped(started_at) == Timeout >= elapsed(started_at)

\* tests_started_at.elapsed() >= config.timeout()
TimeoutElapsed(started_at) == elapsed(started_at) >= Timeout

\* (a head evaluation that returns on a stale head without clearing it)
process_headKeepStale(m) ==
    IF m.head = None THEN {Ok(m)}
    ELSE IF m.head \notin DOMAIN m.pulls THEN {Ok(m)}
    ELSE LET status == m.pulls[m.head].status IN
         IF ~is_testing(status) THEN {Ok(m)}
         ELSE LET name == FindFailure(status.test_results, 1) IN
              IF name # NoCheck THEN Failure(m, name)
              ELSE IF AllPassed(status.test_results) THEN Success(m)
              ELSE IF TimeoutElapsed(status.tests_started_at) THEN TimedOut(m)
              ELSE {Ok(m)}

process_head(m) ==
    IF m.head = None THEN {Ok(m)}
    ELSE IF m.head \notin DOMAIN m.pulls THEN {Ok([m EXCEPT !.head = None])}
    ELSE LET status == m.pulls[m.head].status IN
         IF ~is_testing(status) THEN {Ok([m EXCEPT !.head = None])}
         ELSE LET name == FindFailure(status.test_results, 1) IN
              IF name # NoCheck THEN Failure(m, name)
              ELSE IF AllPassed(status.test_results) THEN Success(m)
              ELSE IF TimeoutElapsed(status.tests_started_at) THEN TimedOut(m)
              ELSE {Ok(m)}

\* ---------------------------------------------------------------- process_next_head
\* (a start of testing that records the status before it pushes 'auto')
StartTestingStatusFirst(m, pr, merge_oid) ==
    Then(update_status(m, pr, testing(merge_oid)), LAMBDA m1 :
    Then(push_branch([m1 EXCEPT !.head = pr], pr), LAMBDA m2 :
    create_status(m2, pr, "Pending", "")))

\* The rebase gave a merge commit: push 'auto', Testing, head, Pending status
StartTesting(m, pr, merge_oid) ==
    Then(push_branch(m, pr), LAMBDA m1 :
    Then(update_status(m1, pr, testing(merge_oid)), LAMBDA m2 :
    create_status([m2 EXCEPT !.head = pr], pr, "Pending", "")))

\* (a conflicting candidate that is recorded as the head)
MergeConflictTakesSlot(m, pr) ==
    Then(update_status(m, pr, InReview), LAMBDA m1 :
    Then(create_status([m1 EXCEPT !.head = pr], pr, "Error", "Merge Conflict"), LAMBDA m2 :
    create_comment(m2, pr, "Merge Conflict", "")))

\* The rebase gave None: InReview, Error status, comment
MergeConflict(m, pr) ==
    Then(update_status(m, pr, InReview), LAMBDA m1 :
    Then(create_status(m1, pr, "Error", "Merge Conflict"), LAMBDA m2 :
    create_comment(m2, pr, "Merge Conflict", "")))

\* while let (None, Some(pull)) = (self.head, queue.next())
RECURSIVE WhileLet(_, _, _)
WhileLet(m, queue, i) ==
    IF m.head # None \/ i > Len(queue) THEN {Ok(m)}
    ELSE LET pr == queue[i] IN
         UNION {IF r.res = "Err" THEN {Err(r.m)}
                ELSE IF r.oid # None
                     THEN Then(StartTesting(r.m, pr, r.oid), LAMBDA m1 : WhileLet(m1, queue, i + 1))
                     ELSE Then(MergeConflict(r.m, pr), LAMBDA m1 : WhileLet(m1, queue, i + 1))
                : r \in fetch_and_rebase(m, pr)}

process_next_head(m) ==
    LET queue == SortByKey(m.pulls, {n \in DOMAIN m.pulls : is_queued(m.pulls[n].status)})
    IN  WhileLet(m, queue, 1)

\* ---------------------------------------------------------------- process_queue
\* assert!(pulls.iter().filter(|(_n, p)| p.status.is_testing()).count() <= 1)
AssertSingleTester(ps) == Cardinality({n \in DOMAIN ps : is_testing(ps[n].status)}) <= 1

\* process_queue as it would be if a head evaluated in this tick ended the tick
process_queue_one_phase(m) ==
    IF ~AssertSingleTester(m.pulls) THEN {[m |-> m, res |-> "Panic"]}
    ELSE IF m.head # None /\ m.head \in DOMAIN m.pulls /\ is_testing(m.pulls[m.head].status)
         THEN process_head(m)
         ELSE Then(process_head(m), LAMBDA m1 :
                   IF m1.head = None THEN process_next_head(m1) ELSE {Ok(m1)})

process_queue(m) ==
    IF ~AssertSingleTester(m.pulls) THEN {[m |-> m, res |-> "Panic"]}
    ELSE Then(process_head(m), LAMBDA m1 :
              IF m1.head = None THEN process_next_head(m1) ELSE {Ok(m1)})

\* ---------------------------------------------------------------- the state machine
\* No tick's result is outstanding.  (A tick's result comes with the calls it made and
\* the head it started with.)
NoTick == [res |-> "None", trace |-> <<>>, head |-> None]

\* MergeQueue::new(), an empty map, and the repository's configuration
Init ==
    /\ pulls = <<>>
    /\ head = None
    /\ now = 0
    /\ maintainer_mode \in BOOLEAN
    /\ project_board \in BOOLEAN
    /\ last = NoTick

\* One call of process_queue, by a caller that is not holding an earlier result.
Tick ==
    /\ last = NoTick
    /\ \E r \in process_queue([pulls |-> pulls, head |-> head, trace |-> <<>>]) :
          /\ pulls' = r.m.pulls
          /\ head' = r.m.head
          /\ last' = [res |-> r.res, trace |-> r.m.trace, head |-> head]
    /\ UNCHANGED <<now, maintainer_mode, project_board>>

\* A pull request is first seen: it enters the map InReview.
OpenPR(n, labels, head_repo, maintainer_can_modify) ==
    /\ last = NoTick
    /\ n \notin DOMAIN pulls
    /\ pulls' = [k \in DOMAIN pulls \cup {n} |->
                   IF k = n
                   THEN [number |-> n, labels |-> labels, head_repo |-> head_repo,
                         maintainer_can_modify |-> maintainer_can_modify,
                         status |-> InReview]
                   ELSE pulls[k]]
    /\ last' = NoTick
    /\ UNCHANGED <<head, now, maintainer_mode, project_board>>

\* The land command: InReview to Queued.
QueuePR(n) ==
    /\ last = NoTick
    /\ n \in DOMAIN pulls
    /\ pulls[n].status = InReview
    /\ pulls' = [pulls EXCEPT ![n].status = Queued]
    /\ last' = NoTick
    /\ UNCHANGED <<head, now, maintainer_mode, project_board>>

\* The cancel command: a queued or tested pull request goes back to InReview.
CancelPR(n) ==
    /\ last = NoTick
    /\ n \in DOMAIN pulls
    /\ pulls[n].status # InReview
    /\ pulls' = [pulls EXCEPT ![n].status = InReview]
    /\ last' = NoTick
    /\ UNCHANGED <<head, now, maintainer_mode, project_board>>

\* The pull request is closed: it leaves the map.
ClosePR(n) ==
    /\ last = NoTick
    /\ n \in DOMAIN pulls
    /\ pulls' = remove(pulls, n)
    /\ last' = NoTick
    /\ UNCHANGED <<head, now, maintainer_mode, project_board>>

\* A check completes on the merge commit of a tested pull request.
RecordResult(n, name, passed) ==
    /\ last = NoTick
    /\ n \in DOMAIN pulls
    /\ is_testing(pulls[n].status)
    /\ name \notin DOMAIN pulls[n].status.test_results
    /\ pulls' = [pulls EXCEPT ![n].status.test_results =
                    [c \in DOMAIN @ \cup {name} |-> IF c = name THEN passed ELSE @[c]]]
    /\ last' = NoTick
    /\ UNCHANGED <<head, now, maintainer_mode, project_board>>

\* Time passes.
AdvanceClock ==
    /\ last = NoTick
    /\ now < MaxTime
    /\ now' = now + 1
    /\ last' = NoTick
    /\ UNCHANGED <<pulls, head, maintainer_mode, project_board>>

\* The caller takes the tick's Result (and logs an error); it then waits for the
\* next event or timer.
Return ==
    /\ last # NoTick
    /\ last' = NoTick
    /\ UNCHANGED <<pulls, head, now, maintainer_mode, project_board>>

\* Pull requests open with either priority, from the repository or from a fork.  The
\* queue reads pull.maintainer_can_modify only to log it: here it is always true.
Next ==
    \/ Tick
    \/ Return
    \/ \E n \in PR, labels \in SUBSET {HighPriority}, head_repo \in {NoRepo, ForkRepo} :
          OpenPR(n, labels, head_repo, TRUE)
    \/ \E n \in PR : QueuePR(n)
    \/ \E n \in PR : CancelPR(n)
    \/ \E n \in PR : ClosePR(n)
    \/ \E n \in PR, name \in CheckSet, passed \in BOOLEAN : RecordResult(n, name, passed)
    \/ AdvanceClock

Spec == Init /\ [][Next]_vars

\* The same machine with every pull request opened from a fork, with either value of
\* maintainer_can_modify.
NextFork ==
    \/ Tick
    \/ Return
    \/ \E n \in PR, maintainer_can_modify \in BOOLEAN :
          OpenPR(n, {}, ForkRepo, maintainer_can_modify)
    \/ \E n \in PR : QueuePR(n)
    \/ \E n \in PR : CancelPR(n)
    \/ \E n \in PR : ClosePR(n)
    \/ \E n \in PR, name \in CheckSet, passed \in BOOLEAN : RecordResult(n, name, passed)
    \/ AdvanceClock

SpecFork == Init /\ [][NextFork]_vars

\* A check that reports on the merge commit and is not in config.checks.
OtherCheck == "coverage"

\* The same machine with results arriving for the configured checks and for one that
\* is not configured.  (Pull requests open without the priority label and from the
\* repository itself: neither is read when the head's results are evaluated.)
NextChecks ==
    \/ Tick
    \/ Return
    \/ \E n \in PR : OpenPR(n, {}, NoRepo, TRUE)
    \/ \E n \in PR : QueuePR(n)
    \/ \E n \in PR : CancelPR(n)
    \/ \E n \in PR : ClosePR(n)
    \/ \E n \in PR, name \in CheckSet \cup {OtherCheck}, passed \in BOOLEAN :
          RecordResult(n, name, passed)
    \/ AdvanceClock

SpecChecks == Init /\ [][NextChecks]_vars

\* ================================================================ properties
\* A step that is one tick: unprimed variables are the state the tick starts in,
\* primed ones the state it leaves, last'.trace the calls it made in order.
TickStep == last = NoTick /\ last' # NoTick
\* A tick that returned (Ok or Err) rather than failing its assertion.
Returned(l) == l.res \in {"Ok", "Err"}

TestingSet(ps) == {n \in DOMAIN ps : ps[n].status.tag = "Testing"}
QueuedSet(ps) == {n \in DOMAIN ps : ps[n].status.tag = "Queued"}
Calls(t, call) == {i \in 1..Len(t) : t[i].call = call}
AllCallsOk(t) == \A i \in 1..Len(t) : t[i].ok
\* Every required check has a recorded result that passed / some required check has a
\* recorded result that did not pass.
RequiredAllPass(status) ==
    \A c \in CheckSet : c \in DOMAIN status.test_results /\ status.test_results[c]
RequiredSomeFail(status) ==
    \E c \in CheckSet : c \in DOMAIN status.test_results /\ ~status.test_results[c]
\* The recorded head is a pull request of the map with status Testing.
HeadTesting(ps, h) == h # None /\ h \in DOMAIN ps /\ ps[h].status.tag = "Testing"

\* ---------------------------------------------------------------- C1
\* C1 (single tester): in every reachable state at most one pull request has status
\* Testing, and so the assertion that opens process_queue never fails.
C1_SingleTester ==
    /\ Cardinality(TestingSet(pulls)) <= 1
    /\ last.res # "Panic"

\* ---------------------------------------------------------------- C2
\* C2: a tick calls update_ref only for the pull request that is the recorded head when
\* the tick starts, whose status is Testing, with that status's merge_oid, and with
\* every required check recorded as passed; so no tick updates the base ref for a
\* pull request with a failing or missing required check.
C2_BaseRefOnlyForPassingHead ==
    [][TickStep =>
        \A i \in Calls(last'.trace, "update_ref") :
            LET e == last'.trace[i] IN
            /\ head = e.pr
            /\ HeadTesting(pulls, head)
            /\ e.oid = pulls[e.pr].status.merge_oid
            /\ RequiredAllPass(pulls[e.pr].status)]_vars

\* A tick has updated the base ref and removed the landed pull request.
C2_Witness ==
    \E i \in Calls(last.trace, "update_ref") :
        last.trace[i].ok /\ last.trace[i].pr \notin DOMAIN pulls

\* ---------------------------------------------------------------- C3
\* C3 (head correspondence): after every tick that returns, Ok or Err, the recorded
\* head is absent or is a pull request of the map with status Testing.
C3_HeadCorrespondence ==
    (last # NoTick /\ Returned(last)) => (head = None \/ HeadTesting(pulls, head))

\* A tick returned an error (its Success status post failed) and left its head
\* recorded, a Testing pull request.
C3_Witness ==
    /\ last.res = "Err"
    /\ HeadTesting(pulls, head)
    /\ \E i \in Calls(last.trace, "create_status") : last.trace[i].arg = "Success"

\* ---------------------------------------------------------------- C4
\* (not high-priority, number): a sorts before b
Before(ps, a, b) ==
    LET pa == HighPriority \in ps[a].labels
        pb == HighPriority \in ps[b].labels
    IN  (pa /\ ~pb) \/ (pa = pb /\ a < b)

\* C4 (ordering): in a tick whose calls all succeed and in which no rebase conflicts,
\* if Phase 2 runs over a non-empty set Q of Queued pull requests, exactly one member
\* of Q is rebased, it becomes Testing and the head, and it is the least of Q in the
\* order (not high-priority, number); the others stay Queued.
C4_Ordering ==
    [][(/\ TickStep
        /\ Returned(last')
        /\ AllCallsOk(last'.trace)
        /\ \A i \in Calls(last'.trace, "fetch_and_rebase") : last'.trace[i].detail # "conflict"
        /\ QueuedSet(pulls) # {}
        /\ Calls(last'.trace, "fetch_and_rebase") # {})
       => \E q \in QueuedSet(pulls) :
            /\ \A k \in QueuedSet(pulls) \ {q} : Before(pulls, q, k)
            /\ \A i \in Calls(last'.trace, "fetch_and_rebase") : last'.trace[i].pr = q
            /\ Cardinality(Calls(last'.trace, "fetch_and_rebase")) = 1
            /\ head' = q
            /\ pulls'[q].status.tag = "Testing"
            /\ \A k \in QueuedSet(pulls) \ {q} : pulls'[k].status = Queued]_vars

\* A high-priority pull request with the higher number was chosen over a queued one
\* with a lower number, which is still Queued.
C4_Witness ==
    /\ last.res = "Ok"
    /\ AllCallsOk(last.trace)
    /\ \E q \in TestingSet(pulls), k \in QueuedSet(pulls) :
          /\ k < q
          /\ head = q
          /\ HighPriority \in pulls[q].labels
          /\ \E i \in Calls(last.trace, "fetch_and_rebase") : last.trace[i].pr = q

\* ---------------------------------------------------------------- C5
\* The tick took the success path into the base-ref update: the Success status was
\* posted and no in-place push was refused.
ReachedMerge(t) ==
    /\ \E i \in Calls(t, "create_status") : t[i].arg = "Success" /\ t[i].ok
    /\ \A i \in Calls(t, "push_to_remote") : t[i].ok

\* C5 (land atomicity): a tick that finds all required checks passing and gets past
\* the in-place step attempts the base-ref update exactly once; and if the base-ref
\* update returned success, the pull request is out of the map when the tick ends,
\* project board or not.
C5_LandAtomicity ==
    last # NoTick =>
        /\ ReachedMerge(last.trace) => Cardinality(Calls(last.trace, "update_ref")) = 1
        /\ \A i \in Calls(last.trace, "update_ref") :
              last.trace[i].ok => last.trace[i].pr \notin DOMAIN pulls

\* ---------------------------------------------------------------- C6
\* C6 as claimed (timeout bound, every Testing pull request): in a tick whose calls
\* all succeed, every pull request that is Testing with now - tests_started_at >=
\* timeout when the tick starts is InReview when it ends, whatever its recorded
\* results and whether or not it is the recorded head.
C6_TimeoutEveryTesting ==
    [][(TickStep /\ Returned(last') /\ AllCallsOk(last'.trace))
       => \A p \in TestingSet(pulls) :
            now - pulls[p].status.tests_started_at >= Timeout
            => (p \in DOMAIN pulls' /\ pulls'[p].status = InReview)]_vars

\* C6 as amended: when the recorded head is Testing with now - tests_started_at >=
\* timeout and its required checks have not all passed, the tick's first call is the
\* status update to InReview; if that call succeeds the pull request is InReview when
\* the tick ends, and if it fails the tick returns Err at once with the head still
\* recorded.
C6_TimeoutHead ==
    [][(/\ TickStep
        /\ Returned(last')
        /\ HeadTesting(pulls, head)
        /\ now - pulls[head].status.tests_started_at >= Timeout
        /\ ~RequiredAllPass(pulls[head].status))
       => LET t == last'.trace IN
          /\ Len(t) >= 1
          /\ t[1].call = "update_status" /\ t[1].pr = head /\ t[1].arg = "InReview"
          /\ t[1].ok => (head \in DOMAIN pulls' /\ pulls'[head].status = InReview)
          /\ ~t[1].ok => (last'.res = "Err" /\ Len(t) = 1 /\ head' = head)]_vars

\* A tick has timed a pull request out: Failure status "Timed-out" posted, InReview.
C6_Witness ==
    /\ last.res = "Ok"
    /\ \E i \in Calls(last.trace, "create_status") :
          /\ last.trace[i].detail = "Timed-out"
          /\ last.trace[i].ok
          /\ last.trace[i].pr \in DOMAIN pulls
          /\ pulls[last.trace[i].pr].status = InReview

\* ---------------------------------------------------------------- C7
\* The recorded head is Testing and a required check of it has a result that did not
\* pass: Phase 1 takes the Failure path.
FailedHead == HeadTesting(pulls, head) /\ RequiredSomeFail(pulls[head].status)
\* The three calls of the Failure path were made and succeeded.
FailurePathDone(t) == Len(t) >= 3 /\ t[1].ok /\ t[2].ok /\ t[3].ok

\* C7 as claimed: when Phase 1 takes the Failure path (in a tick whose calls all
\* succeed), Phase 2
\* does not run in that tick: no rebase is attempted, every Queued pull request is
\* still Queued and head is absent when the tick returns.
C7_NoPhase2AfterFailure ==
    [][(TickStep /\ Returned(last') /\ FailedHead /\ AllCallsOk(last'.trace))
       => /\ Calls(last'.trace, "fetch_and_rebase") = {}
          /\ \A q \in QueuedSet(pulls) : pulls'[q].status = Queued
          /\ head' = None]_vars

\* C7 as amended: when Phase 1 takes the Failure path, the tick first moves the head to
\* InReview, posts the Failure status and the comment.  If these three calls succeed,
\* the head is cleared and Phase 2 runs in the same tick: with a Queued pull request
\* present the next call is a rebase of one, and with none the tick returns Ok with
\* head absent.  Only if one of the three calls fails is Phase 2 skipped: the tick
\* returns Err, no rebase is attempted and every Queued pull request stays Queued.
C7_Phase2AfterFailure ==
    [][(TickStep /\ Returned(last') /\ FailedHead)
       => LET t == last'.trace IN
          /\ Len(t) >= 1
          /\ t[1].call = "update_status" /\ t[1].pr = head /\ t[1].arg = "InReview"
          /\ IF FailurePathDone(t)
             THEN /\ t[2].call = "create_status" /\ t[2].arg = "Failure" /\ t[2].pr = head
                  /\ t[3].call = "create_comment" /\ t[3].pr = head
                  /\ pulls'[head].status = InReview
                  /\ head' # head
                  /\ QueuedSet(pulls) # {} =>
                        /\ Len(t) >= 4
                        /\ t[4].call = "fetch_and_rebase"
                        /\ t[4].pr \in QueuedSet(pulls)
                  /\ QueuedSet(pulls) = {} =>
                        (Len(t) = 3 /\ head' = None /\ last'.res = "Ok")
             ELSE /\ last'.res = "Err"
                  /\ Calls(t, "fetch_and_rebase") = {}
                  /\ \A q \in QueuedSet(pulls) : pulls'[q].status = Queued]_vars

\* A tick reported a test failure and then put the next pull request into Testing.
C7_Witness ==
    /\ last.res = "Ok"
    /\ HeadTesting(pulls, head)
    /\ \E i \in Calls(last.trace, "create_comment"), j \in Calls(last.trace, "fetch_and_rebase") :
          /\ last.trace[i].arg = "Test Failed"
          /\ last.trace[i].ok
          /\ i < j
          /\ last.trace[j].pr = head

\* ---------------------------------------------------------------- C8
\* C8 as claimed: if the in-place push to the fork fails (and every other call of the
\* tick succeeds), then in that tick the base ref is not updated, the pull request
\* stays in the map with status InReview, a comment is posted, head is absent when the
\* tick ends and the tick returns Ok.
C8_InPlaceRefusal ==
    [][TickStep =>
        \A i \in Calls(last'.trace, "push_to_remote") :
            LET t == last'.trace
                p == t[i].pr
            IN  (~t[i].ok /\ \A j \in 1..Len(t) : j # i => t[j].ok)
                => /\ Calls(t, "update_ref") = {}
                   /\ p \in DOMAIN pulls' /\ pulls'[p].status = InReview
                   /\ \E j \in Calls(t, "create_comment") : t[j].pr = p
                   /\ head' = None
                   /\ last'.res = "Ok"]_vars

\* C8 as amended: the in-place push is attempted only for a head from a fork, under
\* maintainer_mode, with all required checks passed.  If it fails, then in that tick
\* the base ref is never updated, the pull request stays in the map and is no longer
\* the head, and the next call is its status update to InReview; if that succeeds it
\* is InReview and the comment is posted next; if the comment succeeds too, land_pr
\* has returned Ok with head absent, so Phase 2 runs in the same tick: with no Queued
\* pull request the tick returns Ok with head absent, and with one the next call is
\* a rebase of it (which may make it the new head).
C8_InPlaceRefusalAbandons ==
    [][TickStep =>
        \A i \in Calls(last'.trace, "push_to_remote") :
            LET t == last'.trace
                p == t[i].pr
            IN  /\ head = p /\ HeadTesting(pulls, p)
                /\ pulls[p].head_repo # NoRepo /\ maintainer_mode
                /\ RequiredAllPass(pulls[p].status)
                /\ ~t[i].ok =>
                    /\ Calls(t, "update_ref") = {}
                    /\ p \in DOMAIN pulls'
                    /\ head' # p
                    /\ Len(t) > i
                    /\ t[i+1].call = "update_status" /\ t[i+1].pr = p /\ t[i+1].arg = "InReview"
                    /\ ~t[i+1].ok => (last'.res = "Err" /\ Len(t) = i + 1)
                    /\ t[i+1].ok =>
                        /\ pulls'[p].status = InReview
                        /\ Len(t) > i + 1
                        /\ t[i+2].call = "create_comment" /\ t[i+2].pr = p
                        /\ t[i+2].arg = "failed to update PR in-place"
                        /\ ~t[i+2].ok => (last'.res = "Err" /\ Len(t) = i + 2)
                        /\ (t[i+2].ok /\ QueuedSet(pulls) = {}) =>
                              (last'.res = "Ok" /\ head' = None /\ Len(t) = i + 2)
                        /\ (t[i+2].ok /\ QueuedSet(pulls) # {}) =>
                              /\ Len(t) > i + 2
                              /\ t[i+3].call = "fetch_and_rebase"
                              /\ t[i+3].pr \in QueuedSet(pulls)]_vars

\* The in-place push was refused: the pull request is back InReview, the comment is
\* posted, the tick returned Ok.
C8_Witness ==
    /\ last.res = "Ok"
    /\ \E i \in Calls(last.trace, "push_to_remote"), j \in Calls(last.trace, "create_comment") :
          /\ ~last.trace[i].ok
          /\ last.trace[j].ok
          /\ last.trace[j].pr = last.trace[i].pr
          /\ last.trace[j].pr \in DOMAIN pulls
          /\ pulls[last.trace[j].pr].status = InReview

\* ---------------------------------------------------------------- C9
\* A call Phase 2 makes for a candidate: the worktree's rebase and push, the Pending
\* or Error status post, the conflict comment.
Phase2Call(e) ==
    \/ e.call \in {"fetch_and_rebase", "push_branch"}
    \/ e.call = "create_status" /\ e.arg \in {"Pending", "Error"}
    \/ e.call = "create_comment" /\ e.arg = "Merge Conflict"

\* C9: if a worktree call or a forge call (status post, comment post) of Phase 2 fails
\* for a candidate, the tick returns Err, the candidate's status is what it was before
\* the tick (Queued) and head is as Phase 2 found it (absent).
C9_Phase2ErrorChangesNothing ==
    [][TickStep =>
        \A i \in 1..Len(last'.trace) :
            LET e == last'.trace[i] IN
            (Phase2Call(e) /\ ~e.ok)
            => /\ last'.res = "Err"
               /\ pulls[e.pr].status = Queued
               /\ pulls'[e.pr].status = Queued
               /\ head' = None]_vars

\* ---------------------------------------------------------------- C10
\* C10: an interrupted step is re-attempted once the collaborators work again.  For
\* the landing: a pull request left Testing with every required check passed (its
\* base-ref update failed in an earlier tick) is landed by the next tick whose calls
\* all succeed: that tick calls update_ref for it.
C10_InterruptedLandRetried ==
    [][(TickStep /\ last'.res = "Ok" /\ AllCallsOk(last'.trace))
       => \A p \in TestingSet(pulls) :
            RequiredAllPass(pulls[p].status)
            => \E i \in Calls(last'.trace, "update_ref") : last'.trace[i].pr = p]_vars

\* ---------------------------------------------------------------- C11
\* The pull requests a tick rebased, with a conflict / into a merge commit.
Conflicted(t) == {t[i].pr : i \in {j \in Calls(t, "fetch_and_rebase") : t[j].detail = "conflict"}}
Rebased(t) == {t[i].pr : i \in {j \in Calls(t, "fetch_and_rebase") : t[j].detail = "merged"}}

\* C11 (conflict skip): in a tick whose calls all succeed and whose Phase 2 rebases a
\* candidate, a candidate whose rebase conflicts goes to InReview, with the Error
\* status and the comment posted for it, and is not the head; the candidates before
\* the first one that rebases cleanly all conflicted and are InReview, that one is
\* Testing and the head, and the Queued pull requests after it are still Queued and
\* no call was made for them; with no clean candidate the head stays absent.
C11_ConflictSkip ==
    [][(TickStep /\ Returned(last') /\ AllCallsOk(last'.trace)
        /\ Calls(last'.trace, "fetch_and_rebase") # {})
       => LET t == last'.trace
              Q == QueuedSet(pulls)
          IN  /\ \A i \in Calls(t, "fetch_and_rebase") :
                    t[i].detail = "conflict"
                    => /\ t[i].pr \in Q
                       /\ pulls'[t[i].pr].status = InReview
                       /\ head' # t[i].pr
                       /\ Len(t) >= i + 3
                       /\ t[i + 1].call = "update_status" /\ t[i + 1].arg = "InReview"
                       /\ t[i + 2].call = "create_status" /\ t[i + 2].arg = "Error"
                       /\ t[i + 2].detail = "Merge Conflict"
                       /\ t[i + 3].call = "create_comment" /\ t[i + 3].arg = "Merge Conflict"
                       /\ \A k \in {i + 1, i + 2, i + 3} : t[k].pr = t[i].pr
              /\ \A c \in Rebased(t) :
                    /\ c \in Q
                    /\ pulls'[c].status.tag = "Testing"
                    /\ head' = c
                    /\ \A q \in Q \ {c} :
                          IF Before(pulls, q, c)
                          THEN q \in Conflicted(t) /\ pulls'[q].status = InReview
                          ELSE /\ pulls'[q].status = Queued
                               /\ \A k \in 1..Len(t) : t[k].pr # q
              /\ Rebased(t) = {} => (head' = None /\ Conflicted(t) = Q)]_vars

\* A tick skipped a conflicting candidate and started testing the next one.
C11_Witness ==
    /\ last.res = "Ok"
    /\ AllCallsOk(last.trace)
    /\ \E c \in Rebased(last.trace), q \in Conflicted(last.trace) :
          /\ head = c
          /\ pulls[c].status.tag = "Testing"
          /\ pulls[q].status = InReview

\* ---------------------------------------------------------------- C12
\* The status tag a pull request has in a map, "removed" when it is not in the map.
TagOf(ps, n) == IF n \in DOMAIN ps THEN ps[n].status.tag ELSE "removed"

\* C12 (status edges of a tick): a tick, whatever its calls return, changes a pull
\* request's status tag only from Queued to Testing, from Queued to InReview, from
\* Testing to InReview, or removes a Testing pull request; an InReview pull request
\* keeps its status, a pull request that is not in the map is not added, a Testing
\* one is never Queued afterwards and one that stays Testing keeps its status record.
C12_StatusEdges ==
    [][TickStep =>
        \A n \in PR :
            \/ /\ TagOf(pulls', n) = TagOf(pulls, n)
               /\ n \in DOMAIN pulls => pulls'[n] = pulls[n]
            \/ <<TagOf(pulls, n), TagOf(pulls', n)>> \in
                  {<<"Queued", "Testing">>, <<"Queued", "InReview">>,
                   <<"Testing", "InReview">>, <<"Testing", "removed">>}]_vars

\* One tick made two of the edges: the head went from Testing to InReview (its check
\* failed) and a Queued pull request went to Testing.
C12_Witness ==
    /\ last.res = "Ok"
    /\ \E i \in Calls(last.trace, "create_status"), j \in Calls(last.trace, "create_status") :
          /\ last.trace[i].arg = "Failure" /\ last.trace[j].arg = "Pending"
          /\ pulls[last.trace[i].pr].status = InReview
          /\ pulls[last.trace[j].pr].status.tag = "Testing"

\* ---------------------------------------------------------------- C13
\* The head is a Testing pull request from a fork whose head branch is closed to
\* maintainers' edits, and every required check has passed.
ClosedForkPassed ==
    /\ HeadTesting(pulls, head)
    /\ pulls[head].head_repo # NoRepo
    /\ ~pulls[head].maintainer_can_modify
    /\ RequiredAllPass(pulls[head].status)
\* Every call of the trace but the in-place push returned Ok.
AllButPushOk(t) == \A i \in 1..Len(t) : t[i].call # "push_to_remote" => t[i].ok

\* C13 as claimed: such a pull request is not landed, whatever config.maintainer_mode
\* is: in a tick whose other calls succeed the base ref is not updated for it, it
\* stays in the map and its status is InReview.
C13_ClosedForkNotLanded ==
    [][(TickStep /\ Returned(last') /\ ClosedForkPassed /\ AllButPushOk(last'.trace))
       => /\ \A i \in Calls(last'.trace, "update_ref") : last'.trace[i].pr # head
          /\ head \in DOMAIN pulls'
          /\ pulls'[head].status = InReview]_vars

\* C13 amended: the Success status is posted first.  With maintainer_mode on, the
\* in-place push of merge_oid follows; if it is refused the base ref is not updated
\* for the pull request and it stays in the map, and when the other calls succeed it
\* is InReview with the comment posted.  With maintainer_mode off no in-place push
\* is made, and when the calls succeed the base ref is updated to its merge_oid and
\* it is removed.
C13_ClosedForkLandsUnlessRefused ==
    [][(TickStep /\ Returned(last') /\ ClosedForkPassed)
       => LET t == last'.trace
              oid == pulls[head].status.merge_oid
          IN  /\ Len(t) >= 1 /\ t[1].call = "create_status" /\ t[1].arg = "Success"
              /\ t[1].pr = head
              /\ (maintainer_mode /\ t[1].ok)
                 => /\ Len(t) >= 2 /\ t[2].call = "push_to_remote"
                    /\ t[2].pr = head /\ t[2].oid = oid
                    /\ ~t[2].ok
                       => /\ \A i \in Calls(t, "update_ref") : t[i].pr # head
                          /\ head \in DOMAIN pulls'
                          /\ AllButPushOk(t)
                             => /\ pulls'[head].status = InReview
                                /\ \E i \in Calls(t, "create_comment") :
                                      /\ t[i].pr = head
                                      /\ t[i].arg = "failed to update PR in-place"
              /\ ~maintainer_mode
                 => /\ \A i \in Calls(t, "push_to_remote") : t[i].pr # head
                    /\ AllCallsOk(t)
                       => /\ head \notin DOMAIN pulls'
                          /\ \E i \in Calls(t, "update_ref") :
                                t[i].pr = head /\ t[i].oid = oid]_vars

\* In maintainer mode a tick was refused the in-place push to a closed fork and left
\* the pull request InReview, the base ref not updated.
C13_Witness ==
    /\ last.res = "Ok"
    /\ \E i \in Calls(last.trace, "push_to_remote") :
          LET p == last.trace[i].pr IN
          /\ ~last.trace[i].ok
          /\ p \in DOMAIN pulls
          /\ ~pulls[p].maintainer_can_modify
          /\ pulls[p].status = InReview
          /\ maintainer_mode
          /\ \A j \in Calls(last.trace, "update_ref") : last.trace[j].pr # p

\* ---------------------------------------------------------------- C14
\* Call j of the trace is the Success status posted for pull request p, and returned Ok.
SuccessPosted(t, j, p) ==
    t[j].call = "create_status" /\ t[j].arg = "Success" /\ t[j].pr = p /\ t[j].ok

\* C14 (order of effects on the success path): in every tick, an in-place push or a
\* base-ref update for a pull request comes after a Success status posted for it that
\* returned Ok; the base-ref update comes after the in-place push, which returned Ok,
\* and the push is made whenever the pull request has a head_repo and maintainer_mode
\* is on; a pull request leaves the map only when its base-ref update returned Ok.  A
\* Success post that fails is the tick's last call, and after a base-ref update that
\* fails the pull request is still in the map.
C14_SuccessOrder ==
    [][TickStep =>
        LET t == last'.trace IN
        /\ \A k \in Calls(t, "push_to_remote") :
              \E j \in 1..(k - 1) : SuccessPosted(t, j, t[k].pr)
        /\ \A i \in Calls(t, "update_ref") :
              /\ \E j \in 1..(i - 1) : SuccessPosted(t, j, t[i].pr)
              /\ \A k \in Calls(t, "push_to_remote") :
                    t[k].pr = t[i].pr => (k < i /\ t[k].ok)
              /\ (pulls[t[i].pr].head_repo # NoRepo /\ maintainer_mode)
                 => \E k \in Calls(t, "push_to_remote") : t[k].pr = t[i].pr
              /\ ~t[i].ok => (t[i].pr \in DOMAIN pulls' /\ i = Len(t))
        /\ \A n \in DOMAIN pulls \ DOMAIN pulls' :
              \E i \in Calls(t, "update_ref") : t[i].pr = n /\ t[i].ok
        /\ \A j \in Calls(t, "create_status") :
              (t[j].arg = "Success" /\ ~t[j].ok) => j = Len(t)]_vars

\* A tick posted Success, pushed in place, updated the base ref and removed the pull
\* request, in that order.
C14_Witness ==
    /\ last.res = "Ok"
    /\ Len(last.trace) >= 3
    /\ SuccessPosted(last.trace, 1, last.trace[1].pr)
    /\ last.trace[2].call = "push_to_remote" /\ last.trace[2].ok
    /\ last.trace[3].call = "update_ref" /\ last.trace[3].ok
    /\ last.trace[1].pr \notin DOMAIN pulls

\* ---------------------------------------------------------------- C15
\* The positions in config.checks of the checks with a recorded result that did not pass.
FailedAt(status) ==
    {i \in 1..Len(Checks) :
        Checks[i] \in DOMAIN status.test_results /\ ~status.test_results[Checks[i]]}
\* The least member of a non-empty set of positions.
Least(S) == CHOOSE i \in S : \A j \in S : i <= j

\* C15 (outcome precedence): when the head is Testing and some required check has a
\* recorded result that did not pass, whether or not other checks are missing or the
\* timeout has passed, the tick takes the failure path: its first call returns the
\* pull request to InReview, the status it posts is Failure with the first failed
\* check in config.checks order as its target, the comment names the same check, and
\* it posts no Success and no Timed-out status and does not update the base ref for
\* the pull request.
C15_FailureFirst ==
    [][(TickStep /\ Returned(last') /\ HeadTesting(pulls, head)
        /\ FailedAt(pulls[head].status) # {})
       => LET t == last'.trace
              name == Checks[Least(FailedAt(pulls[head].status))]
          IN  /\ Len(t) >= 1
              /\ t[1].call = "update_status" /\ t[1].arg = "InReview" /\ t[1].pr = head
              /\ t[1].ok
                 => /\ Len(t) >= 2
                    /\ t[2].call = "create_status" /\ t[2].arg = "Failure"
                    /\ t[2].pr = head /\ t[2].detail = name
                    /\ t[2].ok
                       => /\ Len(t) >= 3
                          /\ t[3].call = "create_comment" /\ t[3].arg = "Test Failed"
                          /\ t[3].pr = head /\ t[3].detail = name
              /\ \A i \in 1..Len(t) :
                    t[i].pr = head
                    => /\ ~(t[i].call = "create_status" /\ t[i].arg = "Success")
                       /\ t[i].detail # "Timed-out"
                       /\ t[i].call \notin {"update_ref", "push_to_remote"}]_vars

\* After the timeout had passed, a tick took the failure path and reported the first
\* configured check as the failed one.
C15_Witness ==
    /\ last.res = "Ok"
    /\ Len(last.trace) >= 3
    /\ last.trace[2].call = "create_status" /\ last.trace[2].arg = "Failure"
    /\ last.trace[2].detail = Checks[1]
    /\ last.trace[3].call = "create_comment" /\ last.trace[3].detail = Checks[1]
    /\ pulls[last.trace[2].pr].status = InReview
    /\ now >= Timeout

\* ---------------------------------------------------------------- C16
\* The head is Testing, no required check has failed, one at least has no result and
\* the timeout has not passed.
HeadPending ==
    /\ HeadTesting(pulls, head)
    /\ ~RequiredSomeFail(pulls[head].status)
    /\ \E c \in CheckSet : c \notin DOMAIN pulls[head].status.test_results
    /\ now - pulls[head].status.tests_started_at < Timeout

\* C16 (a pending tick changes nothing): a tick that starts with the head pending
\* leaves the head and the whole map as they were and makes no collaborator call: no
\* status, comment, rebase, push or base-ref update.
C16_PendingNoOp ==
    [][(TickStep /\ HeadPending)
       => /\ head' = head
          /\ pulls' = pulls
          /\ last'.trace = <<>>]_vars

\* A tick returned Ok with the head pending and a pull request waiting in the queue.
C16_Witness ==
    /\ last.res = "Ok"
    /\ last.trace = <<>>
    /\ HeadPending
    /\ QueuedSet(pulls) # {}

\* ---------------------------------------------------------------- C17
\* The recorded head is a pull request that has left the map or is no longer Testing.
StaleHead == head # None /\ ~HeadTesting(pulls, head)

\* C17 (stale head recovery): a tick that starts with a stale head drops it and
\* makes no Phase 1 call: every call it makes is a Phase 2 call for a Queued
\* candidate, so none is for the pull request that was the head unless that pull
\* request is Queued again.  Phase 2
\* runs in the same tick: with no Queued pull request the tick makes no call and ends
\* with head absent; otherwise its first call is the rebase of the first Queued pull
\* request in queue order, and when its calls succeed a pull request that rebased
\* cleanly is Testing and the head at the end of the tick.
C17_StaleHeadRecovery ==
    [][(TickStep /\ Returned(last') /\ StaleHead)
       => LET t == last'.trace
              Q == QueuedSet(pulls)
          IN  /\ head' # head \/ head \in Q
              /\ head \notin Q => \A i \in 1..Len(t) : t[i].pr # head
              /\ \A i \in 1..Len(t) :
                    t[i].pr \in Q /\ (Phase2Call(t[i]) \/ t[i].call = "update_status")
              /\ Q = {} => (t = <<>> /\ head' = None /\ last'.res = "Ok")
              /\ Q # {}
                 => /\ Len(t) >= 1 /\ t[1].call = "fetch_and_rebase"
                    /\ t[1].pr \in Q
                    /\ \A q \in Q \ {t[1].pr} : Before(pulls, t[1].pr, q)
              /\ AllCallsOk(t)
                 => \A c \in Rebased(t) : pulls'[c].status.tag = "Testing" /\ head' = c]_vars

\* A tick that started with a head that had been cancelled or closed made no call
\* for it and put a Queued pull request in Testing.
C17_Witness ==
    /\ last.res = "Ok"
    /\ AllCallsOk(last.trace)
    /\ last.head # None
    /\ last.head \in DOMAIN pulls => pulls[last.head].status = InReview
    /\ \A i \in 1..Len(last.trace) : last.trace[i].pr # last.head
    /\ Len(last.trace) >= 1
    /\ last.trace[1].call = "fetch_and_rebase"
    /\ \E c \in Rebased(last.trace) : head = c /\ pulls[c].status.tag = "Testing"

\* ---------------------------------------------------------------- C18
\* C18 (no dangling merge_oid): a pull request that a tick puts in Testing was Queued,
\* and in that tick fetch_and_rebase returned a merge commit for it and the push of
\* 'auto' that followed returned Ok; its merge_oid is that commit and it has no
\* test result yet.  If the rebase or the push of 'auto' returns an error, the tick
\* returns the error, the pull request is still Queued and head is absent.
C18_NoDanglingMergeOid ==
    [][TickStep =>
        LET t == last'.trace IN
        /\ \A p \in TestingSet(pulls') \ TestingSet(pulls) :
              /\ p \in QueuedSet(pulls)
              /\ \E i \in Calls(t, "fetch_and_rebase"), j \in Calls(t, "push_branch") :
                    /\ i < j
                    /\ t[i].pr = p /\ t[i].ok /\ t[i].detail = "merged"
                    /\ t[j].pr = p /\ t[j].ok /\ t[j].arg = "auto"
                    /\ pulls'[p].status.merge_oid = t[i].oid
                    /\ t[i].oid # None
              /\ pulls'[p].status.tests_started_at = now
              /\ DOMAIN pulls'[p].status.test_results = {}
        /\ \A i \in Calls(t, "fetch_and_rebase") \cup Calls(t, "push_branch") :
              ~t[i].ok
              => /\ last'.res = "Err"
                 /\ i = Len(t)
                 /\ pulls'[t[i].pr].status = Queued
                 /\ head' = None]_vars

\* A tick put a pull request in Testing with the commit its rebase returned, after
\* the push of 'auto'.
C18_Witness ==
    /\ Returned(last)
    /\ \E i \in Calls(last.trace, "fetch_and_rebase"), j \in Calls(last.trace, "push_branch") :
          LET p == last.trace[i].pr IN
          /\ i < j
          /\ last.trace[j].pr = p /\ last.trace[j].ok
          /\ last.trace[i].oid # None
          /\ p \in DOMAIN pulls
          /\ pulls[p].status.tag = "Testing"
          /\ pulls[p].status.merge_oid = last.trace[i].oid
          /\ head = p

\* ---------------------------------------------------------------- C19
\* A tick whose collaborator calls return Ok; the forge may still refuse the in-place
\* push.
TickOk == Tick /\ AllButPushOk(last'.trace)

\* The machine with working collaborators.  (No pull request has the priority label:
\* it decides which candidate is taken first, not what becomes of the head.)
NextLive ==
    \/ TickOk
    \/ Return
    \/ \E n \in PR, head_repo \in {NoRepo, ForkRepo} : OpenPR(n, {}, head_repo, TRUE)
    \/ \E n \in PR : QueuePR(n)
    \/ \E n \in PR : CancelPR(n)
    \/ \E n \in PR : ClosePR(n)
    \/ \E n \in PR, name \in CheckSet, passed \in BOOLEAN : RecordResult(n, name, passed)
    \/ AdvanceClock

\* The periodic timer keeps calling process_queue, the caller takes each result, and
\* time keeps passing (up to MaxTime).  TickOk is enabled exactly when last = NoTick
\* and leaves last # NoTick, so weak fairness of TickOk is []<>(last # NoTick).
SpecLive ==
    /\ Init
    /\ [][NextLive]_vars
    /\ []<>(last # NoTick)
    /\ WF_vars(Return)
    /\ SF_vars(AdvanceClock)

\* Pull request p is Testing, since a time from which the timeout fits under MaxTime.
TestingInTime(p) ==
    /\ p \in DOMAIN pulls
    /\ pulls[p].status.tag = "Testing"
    /\ pulls[p].status.tests_started_at + Timeout <= MaxTime

\* C19 (Testing always resolves): with ticks that keep coming, a clock that advances
\* and collaborator calls that succeed, a pull request that is Testing eventually is
\* not: it is removed or has another status, whether or not any result arrives.
\* (The clock stops at MaxTime: the pull requests are those whose tests started
\* early enough for the timeout to be reached.)
C19_TestingResolves ==
    \A p \in PR :
        [](TestingInTime(p) => <>(p \notin DOMAIN pulls \/ pulls[p].status.tag # "Testing"))

\* A tick timed a pull request out: it is InReview.
C19_Witness ==
    /\ last.res = "Ok"
    /\ \E i \in Calls(last.trace, "create_status") :
          /\ last.trace[i].detail = "Timed-out"
          /\ pulls[last.trace[i].pr].status = InReview
          /\ last.head = last.trace[i].pr

\* ---------------------------------------------------------------- C20
\* C20 (converse of head correspondence): after every tick that returned, a tick that
\* returned an error from the landing included, every Testing pull request is the
\* recorded head.
C20_TestingIsHead ==
    (last # NoTick /\ Returned(last)) => \A p \in TestingSet(pulls) : head = p

\* ---------------------------------------------------------------- C21
\* What a tick can do from a map and a head, leaving aside the results recorded: its
\* Result, its calls in order, the head and each pull request's status tag after it.
Outcomes(ps, h) ==
    {[res |-> r.res, trace |-> r.m.trace, head |-> r.m.head,
      tags |-> [n \in DOMAIN r.m.pulls |-> r.m.pulls[n].status.tag]]
        : r \in process_queue([pulls |-> ps, head |-> h, trace |-> <<>>])}
\* The recorded results with the result of OtherCheck taken away / set to passed.
WithoutOther(test_results) ==
    [c \in DOMAIN test_results \ {OtherCheck} |-> test_results[c]]
WithOther(test_results, passed) ==
    [c \in DOMAIN test_results \cup {OtherCheck} |->
        IF c = OtherCheck THEN passed ELSE test_results[c]]

\* C21 (checks outside config.checks have no effect): when the head is Testing,
\* taking away, adding or changing the recorded result of a check that is not in
\* config.checks changes nothing a tick can do: the same calls in the same order
\* with the same Result, head and statuses, and so the same one of the failure,
\* success, timeout and wait branches.
C21_OtherChecksNoEffect ==
    HeadTesting(pulls, head)
    => LET test_results == pulls[head].status.test_results IN
       \A variant \in {WithoutOther(test_results)}
                      \cup {WithOther(test_results, passed) : passed \in BOOLEAN} :
           Outcomes([pulls EXCEPT ![head].status.test_results = variant], head)
               = Outcomes(pulls, head)

\* A tick left the head waiting for a configured check although the check that is
\* not configured had reported a failure.
C21_Witness ==
    /\ last.res = "Ok"
    /\ last.trace = <<>>
    /\ HeadTesting(pulls, head)
    /\ last.head = head
    /\ OtherCheck \in DOMAIN pulls[head].status.test_results
    /\ ~pulls[head].status.test_results[OtherCheck]
    /\ \E c \in CheckSet : c \notin DOMAIN pulls[head].status.test_results
    /\ ~RequiredSomeFail(pulls[head].status)

\* ---------------------------------------------------------------- C22
\* Time passes, without end: once the clock is at MaxTime, a further unit of time
\* moves the start of each running test one unit back instead, as far as 0.  The time
\* a test has run is then exact up to MaxTime and stays MaxTime beyond it, and
\* MaxTime is not less than Timeout.
PassTime ==
    /\ last = NoTick
    /\ IF now < MaxTime
       THEN now' = now + 1 /\ pulls' = pulls
       ELSE /\ now' = now
            /\ pulls' = [n \in DOMAIN pulls |->
                            IF is_testing(pulls[n].status)
                               /\ pulls[n].status.tests_started_at > 0
                            THEN [pulls[n] EXCEPT !.status.tests_started_at = @ - 1]
                            ELSE pulls[n]]
    /\ last' = NoTick
    /\ UNCHANGED <<head, maintainer_mode, project_board>>

\* The machine with working collaborators and pull requests of either priority, from
\* the repository itself.
NextQueue ==
    \/ TickOk
    \/ Return
    \/ \E n \in PR, labels \in SUBSET {HighPriority} : OpenPR(n, labels, NoRepo, TRUE)
    \/ \E n \in PR : QueuePR(n)
    \/ \E n \in PR : CancelPR(n)
    \/ \E n \in PR : ClosePR(n)
    \/ \E n \in PR, name \in CheckSet, passed \in BOOLEAN : RecordResult(n, name, passed)
    \/ PassTime

\* Ticks recur (weak fairness of TickOk, as in SpecLive), the caller takes each
\* result, time keeps passing.
SpecQueue ==
    /\ Init
    /\ [][NextQueue]_vars
    /\ []<>(last # NoTick)
    /\ WF_vars(Return)
    /\ SF_vars(PassTime)

IsQueued(p) == p \in DOMAIN pulls /\ pulls[p].status.tag = "Queued"
\* Another pull request is Queued and comes before p in queue order.
Overtaken(p) == \E q \in PR \ {p} : IsQueued(q) /\ Before(pulls, q, p)

\* C22 as claimed: with working collaborators, recurring ticks and a clock that
\* advances, every Queued pull request eventually is not Queued: it is Testing or
\* InReview (or closed).
C22_QueueProgress ==
    \A p \in PR : [](IsQueued(p) => <>~IsQueued(p))

\* C22 amended: under the same conditions a Queued pull request eventually is not
\* Queued, or a pull request that comes before it in queue order is Queued: it waits
\* only for pull requests ordered before it, and waits for ever only when such pull
\* requests are put in the queue again and again.
C22_QueueProgressUnlessOvertaken ==
    \A p \in PR : [](IsQueued(p) => <>(~IsQueued(p) \/ Overtaken(p)))

\* A tick that saw a high-priority head resolve put the waiting pull request, not
\* high-priority, in Testing.
C22_Witness ==
    /\ last.res = "Ok"
    /\ last.head # None
    /\ HeadTesting(pulls, head)
    /\ head # last.head
    /\ HighPriority \notin pulls[head].labels
    /\ last.head \in DOMAIN pulls
    /\ HighPriority \in pulls[last.head].labels
    /\ pulls[last.head].status = InReview
    /\ \E i \in 1..Len(last.trace) : last.trace[i].pr = last.head

====
